---- MODULE Spec2Model ----
(***************************************************************************)
(* SFTP-Sync-Manager: the per-connection sync worker (sync_worker.py), the *)
(* ignore matcher (ignore_parser.py), the SFTP wrapper (sftp_client.py)    *)
(* and the sync_state / logs / status rows of the store (storage.py).      *)
(*                                                                         *)
(* Strings that the code inspects character by character (relative paths,  *)
(* ignore patterns) are sequences of one-character strings.  Times are     *)
(* counted in half seconds, so that the float local mtimes, the integer    *)
(* remote mtimes and the 1.0 s tolerance of _files_differ are all exact.   *)
(***************************************************************************)
EXTENDS Integers, Sequences, FiniteSets, TLC

(***************************************************************************)
(* Bounds of the model.                                                    *)
(***************************************************************************)
\* the latest time of the model, in half seconds: later times are not told apart
MaxTime == 4

\* half seconds per second: mtimes are k/2 s, int() truncates to a multiple
TicksPerSecond == 2

(***************************************************************************)
(* Python str helpers.                                                     *)
(***************************************************************************)
RECURSIVE Lstrip(_, _)
\* str.lstrip(chars): drop leading characters that belong to chars
Lstrip(s, chars) ==
    IF s # <<>> /\ Head(s) \in chars THEN Lstrip(Tail(s), chars) ELSE s

RECURSIVE Rstrip(_, _)
\* str.rstrip(chars)
Rstrip(s, chars) ==
    IF s # <<>> /\ s[Len(s)] \in chars
    THEN Rstrip(SubSeq(s, 1, Len(s) - 1), chars)
    ELSE s

\* str.startswith(prefix)
StartsWith(s, prefix) ==
    Len(prefix) <= Len(s) /\ SubSeq(s, 1, Len(prefix)) = prefix

\* str.endswith(suffix)
EndsWith(s, suffix) ==
    Len(suffix) <= Len(s) /\ SubSeq(s, Len(s) - Len(suffix) + 1, Len(s)) = suffix

\* str.replace("\\", "/")
ReplaceBackslash(s) == [i \in 1..Len(s) |-> IF s[i] = "\\" THEN "/" ELSE s[i]]

\* s.split("/")[-1]
LastSegment(s) ==
    LET slashes == {i \in 1..Len(s) : s[i] = "/"}
        last == IF slashes = {} THEN 0
                ELSE CHOOSE i \in slashes : \A j \in slashes : j <= i
    IN SubSeq(s, last + 1, Len(s))

\* code point of the characters the model uses (Python compares str by code point)
Code(c) ==
    CASE c = "!" -> 33
      [] c = "#" -> 35
      [] c = "*" -> 42
      [] c = "." -> 46
      [] c = "/" -> 47
      [] c = "?" -> 63
      [] c = "\\" -> 92
      [] c = "a" -> 97
      [] c = "b" -> 98
      [] c = "c" -> 99
      [] c = "d" -> 100
      [] c = "x" -> 120
      [] OTHER -> 127

RECURSIVE StrLess(_, _)
\* s < t for Python str
StrLess(s, t) ==
    IF t = <<>> THEN FALSE
    ELSE IF s = <<>> THEN TRUE
    ELSE IF Head(s) = Head(t) THEN StrLess(Tail(s), Tail(t))
    ELSE Code(Head(s)) < Code(Head(t))

RECURSIVE Sorted(_)
\* sorted(S) for a set of str
Sorted(S) ==
    IF S = {} THEN <<>>
    ELSE LET m == CHOOSE x \in S : \A y \in S : x = y \/ StrLess(x, y)
         IN <<m>> \o Sorted(S \ {m})

RECURSIVE FnMatch(_, _)
\* fnmatch.fnmatch(name, pat) on POSIX for patterns made of literals, * and ?
\* (* is .* and ? is . under re.DOTALL, so both also match "/")
FnMatch(name, pat) ==
    IF pat = <<>> THEN name = <<>>
    ELSE IF Head(pat) = "*"
         THEN FnMatch(name, Tail(pat))
              \/ (name # <<>> /\ FnMatch(Tail(name), pat))
    ELSE IF Head(pat) = "?"
         THEN name # <<>> /\ FnMatch(Tail(name), Tail(pat))
    ELSE name # <<>> /\ Head(name) = Head(pat) /\ FnMatch(Tail(name), Tail(pat))

(***************************************************************************)
(* ignore_parser.py                                                        *)
(***************************************************************************)
\* the characters str.strip() removes (the model's lines use the blank only)
Whitespace == {" "}

RECURSIVE LoadLines(_)
\* the loop of _load_patterns over the lines of the file
LoadLines(lines) ==
    IF lines = <<>> THEN <<>>
    ELSE LET line == Rstrip(Lstrip(Head(lines), Whitespace), Whitespace)
         IN IF line = <<>> \/ StartsWith(line, <<"#">>)
            THEN LoadLines(Tail(lines))
            ELSE <<line>> \o LoadLines(Tail(lines))

\* IgnoreRules._load_patterns: file is <<FALSE>> when .sftpsyncignore is
\* missing and <<TRUE, lines>> when it exists
LoadPatterns(file) == IF file[1] THEN LoadLines(file[2]) ELSE <<>>

\* the normalisation of relative_path at the top of should_ignore
NormalizeRel(relative_path) ==
    LET rel == Lstrip(ReplaceBackslash(relative_path), {".", "/"})
    IN IF EndsWith(rel, <<"/">>) /\ Len(rel) > 1 THEN Rstrip(rel, {"/"}) ELSE rel

\* RuleStep where a rule cannot undo an earlier match: the first match wins
RuleStep_FirstWins(pattern, rel, matched) ==
    LET negate == StartsWith(pattern, <<"!">>)
        rule0 == IF negate THEN Tail(pattern) ELSE pattern
        rule1 == IF StartsWith(rule0, <<"/">>) THEN Lstrip(rule0, {"/"}) ELSE rule0
    IN IF matched THEN matched
       ELSE IF EndsWith(rule1, <<"/">>)
       THEN IF StartsWith(rel, Rstrip(rule1, {"/"})) THEN ~negate ELSE matched
       ELSE IF FnMatch(rel, rule1) \/ FnMatch(LastSegment(rel), rule1)
            THEN ~negate
            ELSE matched

\* one iteration of the loop of should_ignore: the new value of matched
RuleStep(pattern, rel, matched) ==
    LET negate == StartsWith(pattern, <<"!">>)
        rule0 == IF negate THEN Tail(pattern) ELSE pattern
        rule1 == IF StartsWith(rule0, <<"/">>) THEN Lstrip(rule0, {"/"}) ELSE rule0
    IN IF EndsWith(rule1, <<"/">>)
       THEN IF StartsWith(rel, Rstrip(rule1, {"/"})) THEN ~negate ELSE matched
       ELSE IF FnMatch(rel, rule1) \/ FnMatch(LastSegment(rel), rule1)
            THEN ~negate
            ELSE matched

RECURSIVE RuleLoop(_, _, _)
RuleLoop(patterns, rel, matched) ==
    IF patterns = <<>> THEN matched
    ELSE RuleLoop(Tail(patterns), rel, RuleStep(Head(patterns), rel, matched))

\* IgnoreRules.should_ignore
should_ignore(patterns, relative_path) ==
    RuleLoop(patterns, NormalizeRel(relative_path), FALSE)

(***************************************************************************)
(* The universe of the model.                                              *)
(***************************************************************************)
\* relative paths of the files that may exist under the two roots: a plain
\* name and a name that begins with a dot
FilePaths == { <<"a">>, <<".", "b">> }

\* sizes in bytes
Sizes == {1, 2}

\* the contents .sftpsyncignore may have: missing, or a comment line, a blank
\* line and the rule "a" written with blanks around it
IgnoreFiles == { <<FALSE>>, <<TRUE, << <<"#", "c">>, <<>>, <<" ", "a", " ">> >> >> }

\* str(exc) of the exceptions that opening the session and listing raise
ConnectErrors == {"connect failed", "listing failed"}

\* Python None / SQL NULL in a numeric column
None == -1
\* NULL in the last_error column
NoError == "NULL"

\* a dict with no keys
EmptyDict == <<>>

\* dict.pop(key, None) / del
Without(d, key) == [k \in DOMAIN d \ {key} |-> d[k]]

\* d[key] = value
With(d, key, value) == (key :> value) @@ d

\* the orders in which iterating a set can yield its elements
Orderings(S) ==
    {s \in [1..Cardinality(S) -> S] : \A i, j \in 1..Cardinality(S) : i # j => s[i] # s[j]}

VARIABLES
    local_tree,      \* files under local_root: path -> [mtime, size]
    remote_tree,     \* files under remote_root: path -> [mtime, size]
    ignore_file,     \* contents of <local_root>/.sftpsyncignore
    connection,      \* SyncWorker.connection (the policy flags)
    sync_state,      \* rows of table sync_state for the connection
    logs,            \* rows appended to table logs since the cycle began
    status,          \* connections.status
    last_error,      \* connections.last_error
    sink_prev,       \* the status stored when the status callback was last invoked
    begin_trees,     \* the two trees as they were when the cycle in progress began
    prior_trees,     \* the two trees as they were when the cycle that saved sync_state began
    pc,              \* position of the worker thread
    observer,        \* SyncWorker.observer is running
    stop_event,      \* SyncWorker.stop_event
    dirty_paths,     \* SyncWorker.dirty_paths
    ignore,          \* _sync_cycle: ignore.patterns
    local_snapshot,  \* _sync_cycle: local_snapshot
    remote_snapshot, \* _sync_cycle: remote_snapshot
    last_state,      \* _sync_cycle: last_state
    dirty,           \* _sync_cycle: dirty, in the order list(dirty) yields it
    actions,         \* _sync_cycle: actions
    idx,             \* position of the for loop over actions
    wake_event,      \* SyncWorker.wake_event
    pending,         \* trigger_sync was called and no cycle has started since
    record,          \* the row of table connections: <<row>>, or <<>> when there is none
    workers,         \* SyncManager.workers[id]: a worker, or NoWorker
    threads,         \* the SyncWorker objects the manager has created
    calls,           \* the calls of SyncManager methods in progress, by calling thread
    lock,            \* the holder of SyncManager.lock
    begin_connection, \* SyncWorker.connection as it was when the cycle in progress began
    args,            \* the arguments of the store or ignore-rule function called
    returned,          \* what that function returned
    store_lock,      \* the holder of Storage._lock
    store_ops        \* the store operations in progress, by thread

envVars == <<local_tree, remote_tree, ignore_file, connection>>
storeVars == <<sync_state, logs, status, last_error, sink_prev>>
histVars == <<begin_trees, prior_trees, begin_connection>>
cycleVars == <<ignore, local_snapshot, remote_snapshot, last_state, dirty, actions, idx>>
workerVars == <<pc, observer, stop_event, dirty_paths>>
wakeVars == <<wake_event, pending>>
mgrVars == <<record, workers, threads, calls, lock>>
callVars == <<args, returned>>
lockVars == <<store_lock, store_ops>>
restVars == <<mgrVars, callVars, lockVars>>
vars == <<envVars, storeVars, histVars, workerVars, cycleVars, wakeVars, restVars>>

(***************************************************************************)
(* storage.py                                                              *)
(***************************************************************************)
\* load_sync_state taking a side to exist when its mtime column is not null
load_sync_state_ByMtime(rows) ==
    [k \in DOMAIN rows |->
        [local_exists  |-> rows[k].local_mtime # None,
         local_mtime   |-> rows[k].local_mtime,
         remote_exists |-> rows[k].remote_mtime # None,
         remote_mtime  |-> rows[k].remote_mtime,
         hash          |-> rows[k].hash]]

\* Storage.load_sync_state: the dict built from the rows
load_sync_state(rows) ==
    [k \in DOMAIN rows |->
        [local_exists  |-> rows[k].local_exists # 0,
         local_mtime   |-> rows[k].local_mtime,
         remote_exists |-> rows[k].remote_exists # 0,
         remote_mtime  |-> rows[k].remote_mtime,
         hash          |-> rows[k].hash]]

\* Storage.save_sync_state: DELETE the connection's rows, INSERT one per entry
save_sync_state(entries) ==
    [k \in DOMAIN entries |->
        [local_exists  |-> IF entries[k].local_exists THEN 1 ELSE 0,
         local_mtime   |-> entries[k].local_mtime,
         remote_exists |-> IF entries[k].remote_exists THEN 1 ELSE 0,
         remote_mtime  |-> entries[k].remote_mtime,
         hash          |-> IF "hash" \in DOMAIN entries[k] THEN entries[k].hash ELSE None]]

\* Storage.add_log: the row appended (timestamp and message left out)
add_log(type, path) == logs' = Append(logs, [type |-> type, path |-> path])

\* SyncManager._handle_status -> Storage.update_status
status_callback(new_status, error) ==
    /\ status' = new_status
    /\ last_error' = error
    /\ sink_prev' = status

(***************************************************************************)
(* sftp_client.py                                                          *)
(***************************************************************************)
\* int(entry.st_mtime): whole seconds
IntSeconds(t) == (t \div TicksPerSecond) * TicksPerSecond

\* SFTPClient.list_recursive: every regular file under the root
list_recursive(tree) ==
    [k \in DOMAIN tree |-> [mtime |-> IntSeconds(tree[k].mtime), size |-> tree[k].size]]

(***************************************************************************)
(* sync_worker.py                                                          *)
(***************************************************************************)
\* the directories above a relative path, as os.walk reaches them
ParentDirs(p) == {SubSeq(p, 1, i - 1) : i \in {j \in 1..Len(p) : p[j] = "/"}}

\* the key _scan_local gives a visited entry: as_posix().lstrip("./")
ScanKey(p) == Lstrip(p, {".", "/"})

\* SyncWorker._scan_local
scan_local(patterns, tree) ==
    LET walked == {p \in DOMAIN tree :
                    \A d \in ParentDirs(p) : ~should_ignore(patterns, ScanKey(d))}
        kept == {p \in walked : ~should_ignore(patterns, ScanKey(p))}
    IN [k \in {ScanKey(p) : p \in kept} |->
            tree[CHOOSE p \in kept : ScanKey(p) = k]]

\* the remote snapshot taken without the filter
filter_remote_Unfiltered(patterns, listing) == listing

\* the remote snapshot of _sync_cycle: the listing without the ignored paths
filter_remote(patterns, listing) ==
    [k \in {q \in DOMAIN listing : ~should_ignore(patterns, q)} |-> listing[k]]

\* _files_differ with >= 1.0 for > 1.0
files_differ_Strict(local_meta, remote_meta) ==
    \/ local_meta.size # remote_meta.size
    \/ local_meta.mtime - remote_meta.mtime >= 1 * TicksPerSecond
    \/ remote_meta.mtime - local_meta.mtime >= 1 * TicksPerSecond

\* SyncWorker._files_differ
files_differ(local_meta, remote_meta) ==
    LET size_diff == IF local_meta.size >= remote_meta.size
                     THEN local_meta.size - remote_meta.size
                     ELSE remote_meta.size - local_meta.size
        time_diff == IF local_meta.mtime >= remote_meta.mtime
                     THEN local_meta.mtime - remote_meta.mtime
                     ELSE remote_meta.mtime - local_meta.mtime
    IN size_diff > 0 \/ time_diff > 1 * TicksPerSecond

\* prev_both testing one side only
prev_both_OneSide(last, path) ==
    path \in DOMAIN last /\ last[path].local_exists

\* prev and prev.get("local_exists") and prev.get("remote_exists")
prev_both(last, path) ==
    path \in DOMAIN last /\ last[path].local_exists /\ last[path].remote_exists

\* plan_both without local_priority
plan_both_ByTime(path, local_meta, remote_meta, local_priority) ==
    IF files_differ(local_meta, remote_meta)
    THEN IF local_meta.mtime >= remote_meta.mtime
         THEN << <<"upload", path>> >>
         ELSE << <<"download", path>> >>
    ELSE <<>>

\* the body of the loop of _plan_actions when both sides have the path
plan_both(path, local_meta, remote_meta, local_priority) ==
    IF files_differ(local_meta, remote_meta)
    THEN IF local_priority \/ local_meta.mtime >= remote_meta.mtime
         THEN << <<"upload", path>> >>
         ELSE << <<"download", path>> >>
    ELSE <<>>

\* plan_local_only without the test of allow_delete
plan_local_only_Ungated(path, last, allow_delete) ==
    IF prev_both(last, path)
    THEN << <<"delete_local", path>> >>
    ELSE << <<"upload", path>> >>

\* ... when only the local side has it
plan_local_only(path, last, allow_delete) ==
    IF prev_both(last, path)
    THEN IF allow_delete THEN << <<"delete_local", path>> >>
         ELSE << <<"upload", path>> >>
    ELSE << <<"upload", path>> >>

\* ... when only the remote side has it
plan_remote_only(path, last, allow_delete) ==
    IF prev_both(last, path)
    THEN IF allow_delete THEN << <<"delete_remote", path>> >>
         ELSE << <<"download", path>> >>
    ELSE << <<"download", path>> >>

\* one iteration of the loop of _plan_actions: the actions appended
plan_path(path, local_files, remote_files, last, allow_delete, local_priority) ==
    IF path \in DOMAIN local_files /\ path \in DOMAIN remote_files
    THEN plan_both(path, local_files[path], remote_files[path], local_priority)
    ELSE IF path \in DOMAIN local_files
    THEN plan_local_only(path, last, allow_delete)
    ELSE IF path \in DOMAIN remote_files
    THEN plan_remote_only(path, last, allow_delete)
    ELSE <<>>

\* ordered = sorted(all_paths): the dirty paths not put first
plan_order_SortedOnly(local_files, remote_files, dirty_list) ==
    Sorted(DOMAIN local_files \cup DOMAIN remote_files)

\* ordered = list(dirty) + sorted(all_paths - dirty)
plan_order(local_files, remote_files, dirty_list) ==
    LET all_paths == DOMAIN local_files \cup DOMAIN remote_files
        dirty_set == {dirty_list[i] : i \in 1..Len(dirty_list)}
    IN dirty_list \o Sorted(all_paths \ dirty_set)

RECURSIVE plan_loop(_, _, _, _, _, _)
plan_loop(ordered, local_files, remote_files, last, allow_delete, local_priority) ==
    IF ordered = <<>> THEN <<>>
    ELSE plan_path(Head(ordered), local_files, remote_files, last,
                   allow_delete, local_priority)
         \o plan_loop(Tail(ordered), local_files, remote_files, last,
                      allow_delete, local_priority)

\* SyncWorker._plan_actions
plan_actions(local_files, remote_files, last, dirty_list, conn) ==
    plan_loop(plan_order(local_files, remote_files, dirty_list),
              local_files, remote_files, last,
              conn.allow_delete, conn.local_priority)

\* SyncWorker._build_snapshot
build_snapshot(local_files, remote_files) ==
    [path \in DOMAIN local_files \cup DOMAIN remote_files |->
        [local_exists  |-> path \in DOMAIN local_files,
         local_mtime   |-> IF path \in DOMAIN local_files
                           THEN local_files[path].mtime ELSE None,
         remote_exists |-> path \in DOMAIN remote_files,
         remote_mtime  |-> IF path \in DOMAIN remote_files
                           THEN remote_files[path].mtime ELSE None]]

(***************************************************************************)
(* Time.                                                                   *)
(***************************************************************************)
\* the mtimes of the files that exist
Mtimes ==
    {local_tree[p].mtime : p \in DOMAIN local_tree}
    \cup {remote_tree[p].mtime : p \in DOMAIN remote_tree}

\* the times the clock can show when a file is written: time does not run
\* backwards, so not before the mtime of any file that exists
Now == {t \in 0..MaxTime : \A m \in Mtimes : m <= t}

\* no trees recorded
NoTrees == <<>>

(***************************************************************************)
(* The initial state: a new connection (no sync_state rows, status         *)
(* Stopped), its worker thread created and not yet running, any policy,    *)
(* any ignore file and any pair of trees of files written at time 0.       *)
(***************************************************************************)
\* no worker is mapped
NoWorker == 0

\* no function is called on its own and no store operation is followed
NoCalls ==
    /\ args = <<>>
    /\ returned = <<>>
    /\ store_lock = "free"
    /\ store_ops = <<>>

\* the worker runs on its own: the manager is left out
NoManager ==
    /\ record = <<>>
    /\ workers = NoWorker
    /\ threads = <<>>
    /\ calls = <<>>
    /\ lock = "free"

InitTrees ==
    UNION {[D -> {[mtime |-> 0, size |-> 1]}] : D \in SUBSET FilePaths}

Init ==
    /\ local_tree \in InitTrees
    /\ remote_tree \in InitTrees
    /\ ignore_file \in IgnoreFiles
    /\ connection \in [allow_delete : BOOLEAN, local_priority : BOOLEAN]
    /\ sync_state = EmptyDict
    /\ logs = <<>>
    /\ status = "Stopped"
    /\ last_error = NoError
    /\ sink_prev = "none"
    /\ begin_trees = NoTrees
    /\ begin_connection = <<>>
    /\ prior_trees = NoTrees
    /\ pc = "start"
    /\ observer = FALSE
    /\ stop_event = FALSE
    /\ dirty_paths = {}
    /\ ignore = <<>>
    /\ local_snapshot = EmptyDict
    /\ remote_snapshot = EmptyDict
    /\ last_state = EmptyDict
    /\ dirty = <<>>
    /\ actions = <<>>
    /\ idx = 0
    /\ wake_event = FALSE
    /\ pending = FALSE
    /\ NoManager
    /\ NoCalls

\* the locals of _sync_cycle go out of scope when it returns
CycleReturns ==
    /\ ignore' = <<>>
    /\ local_snapshot' = EmptyDict
    /\ remote_snapshot' = EmptyDict
    /\ last_state' = EmptyDict
    /\ dirty' = <<>>
    /\ actions' = <<>>
    /\ idx' = 0
    /\ begin_trees' = NoTrees
    /\ begin_connection' = <<>>

(***************************************************************************)
(* The worker thread: SyncWorker.run and SyncWorker._sync_cycle.           *)
(***************************************************************************)
\* run(): mkdir of the local root and _start_observer
RunStart ==
    /\ pc = "start"
    /\ observer' = TRUE
    /\ pc' = "loop"
    /\ UNCHANGED <<envVars, storeVars, histVars, cycleVars, stop_event, dirty_paths>>
    /\ UNCHANGED <<wakeVars, restVars>>

\* run(): the test of the while loop
LoopTest ==
    /\ pc = "loop"
    /\ pc' = IF stop_event THEN "finally" ELSE "cycle"
    /\ UNCHANGED <<envVars, storeVars, histVars, cycleVars, observer, stop_event,
                   dirty_paths>>
    /\ UNCHANGED <<wakeVars, restVars>>

\* CycleBegin without the status Syncing at the top of the cycle
CycleBegin_Silent ==
    /\ pc = "cycle"
    /\ IF stop_event
       THEN /\ pc' = "wait"
            /\ UNCHANGED <<storeVars, histVars, cycleVars, pending>>
       ELSE /\ ignore' = LoadPatterns(ignore_file)
            /\ local_snapshot' = scan_local(ignore', local_tree)
            /\ last_state' = load_sync_state(sync_state)
            /\ dirty' \in Orderings(dirty_paths)
            /\ begin_trees' = <<local_tree, remote_tree>>
            /\ begin_connection' = <<connection>>
            /\ pending' = FALSE
            /\ pc' = "drain"
            /\ UNCHANGED <<storeVars, prior_trees, remote_snapshot, actions, idx>>
    /\ UNCHANGED <<envVars, observer, stop_event, dirty_paths, wake_event, restVars>>

\* CycleBegin without the stop test at the top of _sync_cycle
CycleBegin_NoStopTest ==
    /\ pc = "cycle"
    /\ ignore' = LoadPatterns(ignore_file)
    /\ status_callback("Syncing", NoError)
    /\ local_snapshot' = scan_local(ignore', local_tree)
    /\ last_state' = load_sync_state(sync_state)
    /\ dirty' \in Orderings(dirty_paths)
    /\ begin_trees' = <<local_tree, remote_tree>>
    /\ begin_connection' = <<connection>>
    /\ pending' = FALSE
    /\ pc' = "drain"
    /\ UNCHANGED <<sync_state, logs, prior_trees, remote_snapshot, actions, idx>>
    /\ UNCHANGED <<envVars, observer, stop_event, dirty_paths, wake_event, restVars>>

\* _sync_cycle up to the SFTP session: the stop test, IgnoreRules(local_root),
\* status Syncing, _scan_local, load_sync_state, and the first statement of
\* _consume_dirty: dirty = set(self.dirty_paths)
CycleBegin ==
    /\ pc = "cycle"
    /\ IF stop_event
       THEN /\ pc' = "wait"
            /\ UNCHANGED <<storeVars, histVars, cycleVars, pending>>
       ELSE /\ ignore' = LoadPatterns(ignore_file)
            /\ status_callback("Syncing", NoError)
            /\ local_snapshot' = scan_local(ignore', local_tree)
            /\ last_state' = load_sync_state(sync_state)
            /\ dirty' \in Orderings(dirty_paths)
            /\ begin_trees' = <<local_tree, remote_tree>>
            /\ begin_connection' = <<connection>>
            /\ pending' = FALSE
            /\ pc' = "drain"
            /\ UNCHANGED <<sync_state, logs, prior_trees, remote_snapshot, actions, idx>>
    /\ UNCHANGED <<envVars, observer, stop_event, dirty_paths, wake_event, restVars>>

\* _consume_dirty: self.dirty_paths.clear(), a statement of its own: the
\* watcher thread can run between the copy and the clear
ConsumeClear ==
    /\ pc = "drain"
    /\ dirty_paths' = {}
    /\ pc' = "open"
    /\ UNCHANGED <<envVars, storeVars, histVars, cycleVars, observer, stop_event>>
    /\ UNCHANGED <<wakeVars, restVars>>

\* CycleFails without the return of the except branch: the cycle goes on to
\* save the snapshot it has
CycleFails_FallsThrough(exc) ==
    /\ pc = "open"
    /\ status_callback("Error", exc)
    /\ add_log("error", <<>>)
    /\ sync_state' = save_sync_state(build_snapshot(local_snapshot, remote_snapshot))
    /\ CycleReturns
    /\ pc' = "wait"
    /\ UNCHANGED <<envVars, prior_trees, observer, stop_event, dirty_paths>>
    /\ UNCHANGED <<wakeVars, restVars>>

\* _sync_cycle: SFTPClient.__enter__ or list_recursive raises exc; the except
\* branch
CycleFails(exc) ==
    /\ pc = "open"
    /\ status_callback("Error", exc)
    /\ add_log("error", <<>>)
    /\ CycleReturns
    /\ pc' = "wait"
    /\ UNCHANGED <<envVars, sync_state, prior_trees, observer, stop_event, dirty_paths>>
    /\ UNCHANGED <<wakeVars, restVars>>

\* _sync_cycle: the session opens, the remote tree is listed and filtered, the
\* actions are planned, status Syncing is sent again when there are any
OpenListPlan ==
    /\ pc = "open"
    /\ remote_snapshot' = filter_remote(ignore, list_recursive(remote_tree))
    /\ actions' = plan_actions(local_snapshot, remote_snapshot', last_state,
                               dirty, connection)
    /\ IF actions' # <<>>
       THEN status_callback("Syncing", NoError)
       ELSE UNCHANGED <<status, last_error, sink_prev>>
    /\ idx' = 1
    /\ pc' = "exec"
    /\ UNCHANGED <<envVars, sync_state, logs, histVars, ignore, local_snapshot,
                   last_state, dirty, observer, stop_event, dirty_paths>>
    /\ UNCHANGED <<wakeVars, restVars>>

\* ActionRaises forgetting the snapshot entries of the path
ActionRaises_DropsEntry(path) ==
    /\ add_log("error", path)
    /\ local_snapshot' = Without(local_snapshot, path)
    /\ remote_snapshot' = Without(remote_snapshot, path)
    /\ UNCHANGED <<local_tree, remote_tree>>

\* _execute_action raises: what the except branch does
ActionRaises(path) ==
    /\ add_log("error", path)
    /\ UNCHANGED <<local_tree, remote_tree, local_snapshot, remote_snapshot>>

\* _execute_action, action == "upload": sftp.put writes the remote file, whose
\* mtime is the time of the write; remote_files[path] is the local stat
ExecUpload(path, io_ok) ==
    IF ~io_ok \/ path \notin DOMAIN local_tree
    THEN ActionRaises(path)
    ELSE /\ \E now \in Now :
                remote_tree' = With(remote_tree, path,
                                    [mtime |-> now, size |-> local_tree[path].size])
         /\ remote_snapshot' = With(remote_snapshot, path, local_tree[path])
         /\ add_log("upload", path)
         /\ UNCHANGED <<local_tree, local_snapshot>>

\* _execute_action, action == "download": sftp.get writes the local file, whose
\* mtime is the time of the write; local_files[path] is its stat
ExecDownload(path, io_ok) ==
    IF ~io_ok \/ path \notin DOMAIN remote_tree
    THEN ActionRaises(path)
    ELSE \E now \in Now :
            LET written == [mtime |-> now, size |-> remote_tree[path].size]
            IN /\ local_tree' = With(local_tree, path, written)
               /\ local_snapshot' = With(local_snapshot, path, written)
               /\ add_log("download", path)
               /\ UNCHANGED <<remote_tree, remote_snapshot>>

\* _execute_action, action == "delete_local"
ExecDeleteLocal(path, io_ok) ==
    IF ~io_ok
    THEN ActionRaises(path)
    ELSE /\ local_tree' = Without(local_tree, path)
         /\ local_snapshot' = Without(local_snapshot, path)
         /\ add_log("delete_local", path)
         /\ UNCHANGED <<remote_tree, remote_snapshot>>

\* _execute_action, action == "delete_remote" (delete_path of a missing file
\* returns without an error)
ExecDeleteRemote(path, io_ok) ==
    IF ~io_ok
    THEN ActionRaises(path)
    ELSE /\ remote_tree' = Without(remote_tree, path)
         /\ remote_snapshot' = Without(remote_snapshot, path)
         /\ add_log("delete_remote", path)
         /\ UNCHANGED <<local_tree, local_snapshot>>

\* _sync_cycle: one iteration of the loop over actions; io_ok: the file and
\* network operations of the action succeed
ExecuteAction(io_ok) ==
    /\ pc = "exec"
    /\ idx <= Len(actions)
    /\ LET action == actions[idx][1]
           path == actions[idx][2]
       IN CASE action = "upload" -> ExecUpload(path, io_ok)
            [] action = "download" -> ExecDownload(path, io_ok)
            [] action = "delete_local" -> ExecDeleteLocal(path, io_ok)
            [] action = "delete_remote" -> ExecDeleteRemote(path, io_ok)
    /\ idx' = idx + 1
    /\ UNCHANGED <<ignore_file, connection, sync_state, status, last_error,
                   sink_prev, histVars, workerVars, ignore, last_state, dirty, actions>>
    /\ UNCHANGED <<wakeVars, restVars>>

\* CycleEnd with wake_event.clear() done before the wait instead of after it
CycleEnd_ClearsWake ==
    /\ pc = "exec"
    /\ idx > Len(actions)
    /\ sync_state' = save_sync_state(build_snapshot(local_snapshot, remote_snapshot))
    /\ status_callback("Running", NoError)
    /\ prior_trees' = begin_trees
    /\ CycleReturns
    /\ wake_event' = FALSE
    /\ pc' = "wait"
    /\ UNCHANGED <<envVars, logs, observer, stop_event, dirty_paths>>
    /\ UNCHANGED <<pending, restVars>>

\* _sync_cycle after the with block: _build_snapshot, save_sync_state, Running
CycleEnd ==
    /\ pc = "exec"
    /\ idx > Len(actions)
    /\ sync_state' = save_sync_state(build_snapshot(local_snapshot, remote_snapshot))
    /\ status_callback("Running", NoError)
    /\ prior_trees' = begin_trees
    /\ CycleReturns
    /\ pc' = "wait"
    /\ UNCHANGED <<envVars, logs, observer, stop_event, dirty_paths>>
    /\ UNCHANGED <<wakeVars, restVars>>

\* run(): wake_event.wait(wait_time) returns, at once when the event is set
\* and after wait_time when it is not.  The log rows of the cycle that ended
\* are no longer followed.
Wait ==
    /\ pc = "wait"
    /\ pc' = "clear"
    /\ logs' = <<>>
    /\ UNCHANGED <<envVars, sync_state, status, last_error, sink_prev, histVars,
                   cycleVars, observer, stop_event, dirty_paths>>
    /\ UNCHANGED <<wakeVars, restVars>>

\* run(): wake_event.clear()
WakeClear ==
    /\ pc = "clear"
    /\ wake_event' = FALSE
    /\ pc' = "loop"
    /\ UNCHANGED <<envVars, storeVars, histVars, cycleVars, observer, stop_event,
                   dirty_paths, pending, restVars>>

\* run(): the finally block, first statement: _stop_observer
StopObserver ==
    /\ pc = "finally"
    /\ observer' = FALSE
    /\ pc' = "emit"
    /\ UNCHANGED <<envVars, storeVars, histVars, cycleVars, stop_event, dirty_paths>>
    /\ UNCHANGED <<wakeVars, restVars>>

\* run(): the finally block, second statement: status Stopped; run() returns
Finally ==
    /\ pc = "emit"
    /\ status_callback("Stopped", NoError)
    /\ pc' = "done"
    /\ UNCHANGED <<envVars, sync_state, logs, histVars, cycleVars, observer,
                   stop_event, dirty_paths>>
    /\ UNCHANGED <<wakeVars, restVars>>

(***************************************************************************)
(* The other threads and the world outside.                                *)
(***************************************************************************)
\* SyncWorker.stop, called by SyncManager.stop_connection
Stop ==
    /\ ~stop_event
    /\ stop_event' = TRUE
    /\ wake_event' = TRUE
    /\ UNCHANGED <<envVars, storeVars, histVars, cycleVars, pc, observer, dirty_paths>>
    /\ UNCHANGED <<pending, restVars>>

\* _LocalEventHandler.on_any_event -> SyncWorker.mark_dirty, on the watcher
\* thread, for an event of the file at path (relative to the local root)
mark_dirty(path) ==
    /\ observer
    /\ path # <<>>
    /\ path \notin dirty_paths
    /\ dirty_paths' = dirty_paths \cup {path}
    /\ wake_event' = TRUE
    /\ UNCHANGED <<envVars, storeVars, histVars, cycleVars, pc, observer, stop_event>>
    /\ UNCHANGED <<pending, restVars>>

\* SyncWorker.trigger_sync, called by the manager on a worker thread that has
\* been started and has not ended
trigger_sync ==
    /\ pc \notin {"start", "done"}
    /\ wake_event' = TRUE
    /\ pending' = TRUE
    /\ UNCHANGED <<envVars, storeVars, histVars, cycleVars, workerVars, restVars>>

\* one worker thread from its start to its end, with a server that may fail
\* and a stop request that may come at any time; the watcher is silent
Next ==
    \/ RunStart
    \/ LoopTest
    \/ CycleBegin
    \/ ConsumeClear
    \/ \E exc \in ConnectErrors : CycleFails(exc)
    \/ OpenListPlan
    \/ \E io_ok \in BOOLEAN : ExecuteAction(io_ok)
    \/ CycleEnd
    \/ Wait
    \/ WakeClear
    \/ StopObserver
    \/ Finally
    \/ Stop

Spec == Init /\ [][Next]_vars

(***************************************************************************)
(* FaultSpec: the same worker thread where the file system and the store   *)
(* may fail too: the statements of _sync_cycle that stand outside its try. *)
(***************************************************************************)
\* the statements of _sync_cycle outside the try that can raise: IgnoreRules
\* (read_text of the ignore file), _scan_local (os.walk, stat) and
\* load_sync_state, save_sync_state, the store write of the Running status
EscapeSteps == {"ignore", "scan", "save", "callback"}

\* _sync_cycle: the statement at step raises; nothing catches it before the
\* finally block of run(), which it reaches with what the cycle did so far
CycleEscapes(step) ==
    /\ ~stop_event
    /\ \/ /\ step = "ignore"
          /\ pc = "cycle"
          /\ UNCHANGED <<sync_state, status, last_error, sink_prev>>
       \/ /\ step = "scan"
          /\ pc = "cycle"
          /\ status_callback("Syncing", NoError)
          /\ UNCHANGED sync_state
       \/ /\ step = "save"
          /\ pc = "exec"
          /\ idx > Len(actions)
          /\ UNCHANGED <<sync_state, status, last_error, sink_prev>>
       \/ /\ step = "callback"
          /\ pc = "exec"
          /\ idx > Len(actions)
          /\ sync_state' = save_sync_state(build_snapshot(local_snapshot, remote_snapshot))
          /\ UNCHANGED <<status, last_error, sink_prev>>
    /\ CycleReturns
    /\ pc' = "finally"
    /\ UNCHANGED <<envVars, logs, prior_trees, observer, stop_event, dirty_paths>>
    /\ UNCHANGED <<wakeVars, restVars>>

FaultNext ==
    \/ Next
    \/ \E step \in EscapeSteps : CycleEscapes(step)

FaultSpec == Init /\ [][FaultNext]_vars

(***************************************************************************)
(* PlanSpec: the top of any cycle.  The trees, the prior sync_state, the   *)
(* policy and the ignore file are those an earlier run and other programs  *)
(* can have left; the watcher reports events; the cycle scans, drains,     *)
(* lists and plans.                                                        *)
(***************************************************************************)
\* what a file can be: missing, or written at any time with any size
FileStates ==
    {EmptyDict} \cup {<<[mtime |-> m, size |-> s]>> : m \in 0..MaxTime, s \in Sizes}

\* a tree holding file "a" in any state and file ".b" as InitTrees has it
TreeOf(a_state, with_b) ==
    LET a_part == IF a_state = EmptyDict THEN EmptyDict ELSE <<"a">> :> a_state[1]
        b_part == IF with_b THEN <<".", "b">> :> [mtime |-> 0, size |-> 1] ELSE EmptyDict
    IN a_part @@ b_part

PlanTrees == {TreeOf(a_state, with_b) : a_state \in FileStates, with_b \in BOOLEAN}

\* the sync_state rows a cycle saves for trees that hold file "a" or nothing
PriorStates ==
    {save_sync_state(build_snapshot(scan_local(<<>>, TreeOf(la, FALSE)),
                                    list_recursive(TreeOf(ra, FALSE)))) :
        la \in {EmptyDict, <<[mtime |-> 0, size |-> 1]>>},
        ra \in {EmptyDict, <<[mtime |-> 0, size |-> 1]>>}}

PlanInit ==
    /\ local_tree \in PlanTrees
    /\ remote_tree \in PlanTrees
    /\ ignore_file \in IgnoreFiles
    /\ connection \in [allow_delete : BOOLEAN, local_priority : BOOLEAN]
    /\ sync_state \in PriorStates
    /\ logs = <<>>
    /\ status = "Running"
    /\ last_error = NoError
    /\ sink_prev = "Syncing"
    /\ begin_trees = NoTrees
    /\ begin_connection = <<>>
    /\ prior_trees = NoTrees
    /\ pc = "cycle"
    /\ observer = TRUE
    /\ stop_event = FALSE
    /\ dirty_paths = {}
    /\ ignore = <<>>
    /\ local_snapshot = EmptyDict
    /\ remote_snapshot = EmptyDict
    /\ last_state = EmptyDict
    /\ dirty = <<>>
    /\ actions = <<>>
    /\ idx = 0
    /\ wake_event = FALSE
    /\ pending = FALSE
    /\ NoManager
    /\ NoCalls

PlanNext ==
    \/ \E path \in FilePaths : mark_dirty(path)
    \/ CycleBegin
    \/ ConsumeClear
    \/ OpenListPlan

PlanSpec == PlanInit /\ [][PlanNext]_vars

(***************************************************************************)
(* ConvergeSpec: repeated cycles of a worker that is never stopped, with   *)
(* no failure of the server or of a file operation and nobody else         *)
(* changing the trees.  The thread keeps running (weak fairness).          *)
(***************************************************************************)
ConvergeNext ==
    \/ RunStart
    \/ LoopTest
    \/ CycleBegin
    \/ ConsumeClear
    \/ OpenListPlan
    \/ ExecuteAction(TRUE)
    \/ CycleEnd
    \/ Wait
    \/ WakeClear

ConvergeSpec == Init /\ [][ConvergeNext]_vars /\ WF_vars(ConvergeNext)

(***************************************************************************)
(* LiveSpec: one worker thread with a manager that may call trigger_sync   *)
(* and stop at any time.  The thread is scheduled, every I/O step returns  *)
(* or raises and the wait returns after wait_time at the latest: weak      *)
(* fairness of the steps of the thread.  No exception escapes a cycle.     *)
(***************************************************************************)
LiveInit ==
    /\ Init
    /\ remote_tree = EmptyDict
    /\ ignore_file = <<FALSE>>
    /\ connection = [allow_delete |-> FALSE, local_priority |-> FALSE]

\* a step of the worker thread
WorkerStep ==
    \/ RunStart
    \/ LoopTest
    \/ CycleBegin
    \/ ConsumeClear
    \/ \E exc \in ConnectErrors : CycleFails(exc)
    \/ OpenListPlan
    \/ \E io_ok \in BOOLEAN : ExecuteAction(io_ok)
    \/ CycleEnd
    \/ Wait
    \/ WakeClear
    \/ StopObserver
    \/ Finally

LiveNext ==
    \/ WorkerStep
    \/ Stop
    \/ trigger_sync

LiveSpec == LiveInit /\ [][LiveNext]_vars /\ WF_vars(WorkerStep)

(***************************************************************************)
(* sync_manager.py: the manager of one connection id, called from the web  *)
(* thread (app.py) and from the tray thread (tray.py), and the worker      *)
(* threads it creates, each reduced to what the manager can tell of it:    *)
(* where it is in run(), its events and its copy of the connection.        *)
(***************************************************************************)
\* the most SyncWorker objects created in a run of the model
MaxWorkers == 2

\* the threads that call the manager: the web server's and the tray's
Callers == {"web", "tray"}

\* the rows the connection can have in the store: none, or one of two that
\* differ in enabled and in a policy flag
Records ==
    {<<>>, <<[enabled |-> TRUE, allow_delete |-> FALSE]>>,
     <<[enabled |-> FALSE, allow_delete |-> TRUE]>>}

\* Storage.update_status
update_status(new_status, error) ==
    /\ status' = new_status
    /\ last_error' = error

\* what the manager specification leaves alone: the inside of one worker
soloVars ==
    <<envVars, sync_state, logs, sink_prev, histVars, workerVars, cycleVars, wakeVars,
      callVars, lockVars>>

\* Thread.is_alive()
is_alive(w) == threads[w].pc # "dead"

\* no call in progress on a calling thread; ret is what the last
\* start_connection on the thread returned
Idle(ret) == [op |-> "idle", pc |-> "idle", w |-> NoWorker, ret |-> ret, alone |-> FALSE]

\* thread c goes on in its call, to position to, holding worker w
Proceed(c, to, w) == calls' = [calls EXCEPT ![c].pc = to, ![c].w = w]

\* thread c returns ret from its call
Return(c, ret) == calls' = [calls EXCEPT ![c] = Idle(ret)]

\* thread c enters operation op and reaches position to, holding worker w;
\* alone records that no other call is in progress, and the calls in progress
\* are no longer alone
Enter(c, op, to, w) ==
    calls' = [d \in Callers |->
                IF d = c
                THEN IF to = "idle"
                     THEN Idle(calls[c].ret)
                     ELSE [op |-> op, pc |-> to, w |-> w, ret |-> calls[c].ret,
                           alone |-> \A e \in Callers \ {c} : calls[e].pc = "idle"]
                ELSE [calls[d] EXCEPT !.alone = FALSE]]

\* the bound on the workers created leaves room for the one this call may
\* create and for those the calls in progress may create
CanSpawn(c) ==
    Len(threads) + Cardinality({d \in Callers \ {c} :
                                  calls[d].op \in {"start", "refresh", "sync_now"}})
        < MaxWorkers

\* SyncWorker(connection, ...) and worker.start(): a new thread at the top of
\* its loop, with the row as its connection
NewThread(woken) ==
    [pc |-> "loop", stop_event |-> FALSE, wake_event |-> woken, connection |-> record[1]]

MgrInit ==
    /\ local_tree = EmptyDict
    /\ remote_tree = EmptyDict
    /\ ignore_file = <<FALSE>>
    /\ connection = [allow_delete |-> FALSE, local_priority |-> FALSE]
    /\ sync_state = EmptyDict
    /\ logs = <<>>
    /\ status = "Stopped"
    /\ last_error = NoError
    /\ sink_prev = "none"
    /\ begin_trees = NoTrees
    /\ begin_connection = <<>>
    /\ prior_trees = NoTrees
    /\ pc = "start"
    /\ observer = FALSE
    /\ stop_event = FALSE
    /\ dirty_paths = {}
    /\ ignore = <<>>
    /\ local_snapshot = EmptyDict
    /\ remote_snapshot = EmptyDict
    /\ last_state = EmptyDict
    /\ dirty = <<>>
    /\ actions = <<>>
    /\ idx = 0
    /\ wake_event = FALSE
    /\ pending = FALSE
    /\ record = <<[enabled |-> TRUE, allow_delete |-> FALSE]>>
    /\ workers = NoWorker
    /\ threads = <<>>
    /\ calls = [c \in Callers |-> Idle("None")]
    /\ lock = "free"
    /\ NoCalls

\* StartConnectionLock without the lock
StartConnectionLock_NoLock(c) ==
    /\ LET found == IF workers # NoWorker /\ is_alive(workers) THEN workers ELSE NoWorker
       IN \/ /\ calls[c].pc = "idle"
             /\ CanSpawn(c)
             /\ Enter(c, "start", "body", found)
          \/ /\ calls[c].pc = "acquire"
             /\ Proceed(c, "body", found)
    /\ lock' = c
    /\ UNCHANGED <<record, workers, threads, status, last_error, soloVars>>

\* start_connection: with self.lock, and the tests of the map and of
\* is_alive(): the call goes on with the live worker mapped, or with none
StartConnectionLock(c) ==
    /\ lock = "free"
    /\ LET found == IF workers # NoWorker /\ is_alive(workers) THEN workers ELSE NoWorker
       IN \/ /\ calls[c].pc = "idle"
             /\ CanSpawn(c)
             /\ Enter(c, "start", "body", found)
          \/ /\ calls[c].pc = "acquire"
             /\ Proceed(c, "body", found)
    /\ lock' = c
    /\ UNCHANGED <<record, workers, threads, status, last_error, soloVars>>

\* start_connection: trigger_sync on the live worker; or _spawn_worker, the
\* store of the new worker in the map (and trigger_sync on it when it replaces
\* a dead one), False when there is no row; the lock is released
StartConnectionBody(c) ==
    /\ calls[c].pc = "body"
    /\ IF calls[c].w # NoWorker
       THEN /\ threads' = [threads EXCEPT ![calls[c].w].wake_event = TRUE]
            /\ UNCHANGED workers
            /\ Return(c, "True")
       ELSE IF record # <<>>
       THEN /\ threads' = Append(threads, NewThread(workers # NoWorker))
            /\ workers' = Len(threads) + 1
            /\ Return(c, "True")
       ELSE /\ UNCHANGED <<threads, workers>>
            /\ Return(c, "False")
    /\ lock' = "free"
    /\ UNCHANGED <<record, status, last_error, soloVars>>

\* StopConnectionPop reading the map without removing the worker
StopConnectionPop_Keeps(c, op) ==
    /\ calls[c].pc = "idle"
    /\ lock = "free"
    /\ op = "refresh" => (c = "web" /\ CanSpawn(c))
    /\ workers' = workers
    /\ IF workers # NoWorker
       THEN Enter(c, op, "stop", workers)
       ELSE IF op = "refresh"
       THEN Enter(c, op, "read", NoWorker)
       ELSE Enter(c, op, "idle", NoWorker)
    /\ UNCHANGED <<record, threads, lock, status, last_error, soloVars>>

\* StopConnectionPop keeping the lock after the pop, through stop and join
StopConnectionPop_HoldsLock(c, op) ==
    /\ calls[c].pc = "idle"
    /\ lock = "free"
    /\ op = "refresh" => (c = "web" /\ CanSpawn(c))
    /\ workers' = NoWorker
    /\ IF workers # NoWorker
       THEN Enter(c, op, "stop", workers) /\ lock' = c
       ELSE IF op = "refresh"
       THEN Enter(c, op, "read", NoWorker) /\ lock' = lock
       ELSE Enter(c, op, "idle", NoWorker) /\ lock' = lock
    /\ UNCHANGED <<record, threads, status, last_error, soloVars>>

\* stop_connection, also as the first call of refresh_connection: the pop of
\* the worker under the lock; with no worker mapped stop_connection returns
StopConnectionPop(c, op) ==
    /\ calls[c].pc = "idle"
    /\ lock = "free"
    /\ op = "refresh" => (c = "web" /\ CanSpawn(c))
    /\ workers' = NoWorker
    /\ IF workers # NoWorker
       THEN Enter(c, op, "stop", workers)
       ELSE IF op = "refresh"
       THEN Enter(c, op, "read", NoWorker)
       ELSE Enter(c, op, "idle", NoWorker)
    /\ UNCHANGED <<record, threads, lock, status, last_error, soloVars>>

\* stop_connection: worker.stop()
StopConnectionStop(c) ==
    /\ calls[c].pc = "stop"
    /\ threads' = [threads EXCEPT ![calls[c].w].stop_event = TRUE,
                                  ![calls[c].w].wake_event = TRUE]
    /\ Proceed(c, "join", calls[c].w)
    /\ UNCHANGED <<record, workers, lock, status, last_error, soloVars>>

\* stop_connection: worker.join(timeout=10) returns, the thread ended or not
StopConnectionJoin(c) ==
    /\ calls[c].pc = "join"
    /\ Proceed(c, "write", calls[c].w)
    /\ UNCHANGED <<record, workers, threads, lock, status, last_error, soloVars>>

\* stop_connection: update_status(id, "Stopped", None), and the return;
\* refresh_connection goes on
StopConnectionWrite(c) ==
    /\ calls[c].pc = "write"
    /\ update_status("Stopped", NoError)
    /\ IF calls[c].op = "refresh"
       THEN Proceed(c, "read", NoWorker)
       ELSE Return(c, calls[c].ret)
    /\ UNCHANGED <<record, workers, threads, lock, soloVars>>

\* refresh_connection: get_connection and the test of enabled
RefreshGet(c) ==
    /\ calls[c].pc = "read"
    /\ IF record # <<>> /\ record[1].enabled
       THEN Proceed(c, "acquire", NoWorker)
       ELSE Return(c, calls[c].ret)
    /\ UNCHANGED <<record, workers, threads, lock, status, last_error, soloVars>>

\* sync_now: self.workers.get(connection_id), without the lock
SyncNowGet(c) ==
    /\ calls[c].pc = "idle"
    /\ c = "web"
    /\ CanSpawn(c)
    /\ IF workers # NoWorker
       THEN Enter(c, "sync_now", "trigger", workers)
       ELSE Enter(c, "sync_now", "acquire", NoWorker)
    /\ UNCHANGED <<record, workers, threads, lock, status, last_error, soloVars>>

\* sync_now: worker.trigger_sync()
SyncNowTrigger(c) ==
    /\ calls[c].pc = "trigger"
    /\ threads' = [threads EXCEPT ![calls[c].w].wake_event = TRUE]
    /\ Return(c, calls[c].ret)
    /\ UNCHANGED <<record, workers, lock, status, last_error, soloVars>>

\* app.py, save_connection / delete_connection: the web thread, between its
\* calls of the manager, writes or deletes the row
UpdateRecord ==
    /\ calls["web"].pc = "idle"
    /\ record' \in Records \ {record}
    /\ UNCHANGED <<workers, threads, calls, lock, status, last_error, soloVars>>

\* run() of worker w: the while test; a cycle starts with status Syncing
ThreadLoop(w) ==
    /\ threads[w].pc = "loop"
    /\ IF threads[w].stop_event
       THEN /\ threads' = [threads EXCEPT ![w].pc = "finally"]
            /\ UNCHANGED <<status, last_error>>
       ELSE /\ threads' = [threads EXCEPT ![w].pc = "cycle"]
            /\ update_status("Syncing", NoError)
    /\ UNCHANGED <<record, workers, calls, lock, soloVars>>

\* run() of worker w: its cycle ends with status Running or Error; the wait
\* returns and the event is cleared
ThreadCycleEnd(w, result) ==
    /\ threads[w].pc = "cycle"
    /\ threads' = [threads EXCEPT ![w].pc = "loop", ![w].wake_event = FALSE]
    /\ update_status(result, IF result = "Error" THEN "connect failed" ELSE NoError)
    /\ UNCHANGED <<record, workers, calls, lock, soloVars>>

\* run() of worker w: a statement of _sync_cycle outside its try raises
\* (IgnoreRules, _scan_local, load_sync_state, save_sync_state): the
\* exception leaves the loop through the finally block
ThreadCycleEscapes(w) ==
    /\ threads[w].pc = "cycle"
    /\ threads' = [threads EXCEPT ![w].pc = "finally"]
    /\ UNCHANGED <<record, workers, calls, lock, status, last_error, soloVars>>

\* run() of worker w, finally: status_callback(id, "Stopped", None) ->
\* _handle_status -> update_status
ThreadEmitStopped(w) ==
    /\ threads[w].pc = "finally"
    /\ threads' = [threads EXCEPT ![w].pc = "handle"]
    /\ update_status("Stopped", NoError)
    /\ UNCHANGED <<record, workers, calls, lock, soloVars>>

\* _handle_status on the thread of worker w, status Stopped: under the lock,
\* the mapped worker is popped when it is not alive; then run() returns and
\* the thread ends
HandleStopped(w) ==
    /\ threads[w].pc = "handle"
    /\ lock = "free"
    /\ workers' = IF workers # NoWorker /\ ~is_alive(workers) THEN NoWorker ELSE workers
    /\ threads' = [threads EXCEPT ![w].pc = "dead"]
    /\ UNCHANGED <<record, calls, lock, status, last_error, soloVars>>

MgrNext ==
    \/ \E c \in Callers : StartConnectionLock(c)
    \/ \E c \in Callers : StartConnectionBody(c)
    \/ \E c \in Callers, op \in {"stop", "refresh"} : StopConnectionPop(c, op)
    \/ \E c \in Callers : StopConnectionStop(c)
    \/ \E c \in Callers : StopConnectionJoin(c)
    \/ \E c \in Callers : StopConnectionWrite(c)
    \/ \E c \in Callers : RefreshGet(c)
    \/ \E c \in Callers : SyncNowGet(c)
    \/ \E c \in Callers : SyncNowTrigger(c)
    \/ UpdateRecord
    \/ \E w \in DOMAIN threads : ThreadLoop(w)
    \/ \E w \in DOMAIN threads, result \in {"Running", "Error"} : ThreadCycleEnd(w, result)
    \/ \E w \in DOMAIN threads : ThreadCycleEscapes(w)
    \/ \E w \in DOMAIN threads : ThreadEmitStopped(w)
    \/ \E w \in DOMAIN threads : HandleStopped(w)

MgrSpec == MgrInit /\ [][MgrNext]_vars

(***************************************************************************)
(* Properties.                                                             *)
(***************************************************************************)
\* the snapshots a cycle would take of the two trees now
LocalNow == scan_local(LoadPatterns(ignore_file), local_tree)
RemoteNow == filter_remote(LoadPatterns(ignore_file), list_recursive(remote_tree))

\* two snapshots are equal: same paths, same sizes, mtimes within 1 second
SnapshotsEqual(ls, rs) ==
    /\ DOMAIN ls = DOMAIN rs
    /\ \A p \in DOMAIN ls : ~files_differ(ls[p], rs[p])

\* C1: convergence. With no failure and nobody else changing the trees,
\* repeated cycles reach a point from which the two snapshots are equal and
\* every cycle plans zero actions.
C1_Convergence ==
    <>[](SnapshotsEqual(LocalNow, RemoteNow) /\ (pc = "exec" => actions = <<>>))

\* C2: a cycle whose session open or listing raises (the only way from the
\* session straight to the wait) sets status Error with the exception text,
\* appends exactly one log row of type error with an empty path and leaves the
\* sync_state rows as they were.
C2_FailureKeepsState ==
    [][(pc = "open" /\ pc' = "wait") =>
          /\ status' = "Error"
          /\ last_error' \in ConnectErrors
          /\ logs' = Append(logs, [type |-> "error", path |-> <<>>])
          /\ sync_state' = sync_state]_vars

\* a cycle has failed after an earlier one saved rows, which are still there
C2_Witness ==
    /\ pc = "wait"
    /\ status = "Error"
    /\ last_error = "connect failed"
    /\ logs = <<[type |-> "error", path |-> <<>>]>>
    /\ sync_state # EmptyDict

\* the actions planned for a path
ActionsFor(path) == SelectSeq(actions, LAMBDA a : a[2] = path)

\* the kinds of the planned actions
PlannedKinds == {actions[i][1] : i \in 1..Len(actions)}

\* the stored rows record the path as present on both sides
RecordedBoth(path) ==
    /\ path \in DOMAIN sync_state
    /\ sync_state[path].local_exists = 1
    /\ sync_state[path].remote_exists = 1

\* the paths the cycle found on one side only
OnlyLocal == DOMAIN local_snapshot \ DOMAIN remote_snapshot
OnlyRemote == DOMAIN remote_snapshot \ DOMAIN local_snapshot
OnBoth == DOMAIN local_snapshot \cap DOMAIN remote_snapshot

\* C3: deletion gating. With allow_delete false a cycle plans no delete_local
\* and no delete_remote.
C3_DeletionGating ==
    (pc = "exec" /\ ~connection.allow_delete) =>
        PlannedKinds \cap {"delete_local", "delete_remote"} = {}

\* S4: allow_delete false, a file recorded on both sides is gone remotely and
\* is uploaded again
C3_Witness ==
    /\ pc = "exec"
    /\ ~connection.allow_delete
    /\ \E path \in OnlyLocal :
          RecordedBoth(path) /\ ActionsFor(path) = << <<"upload", path>> >>

\* C4: one-sided paths. A path only in the local snapshot gets delete_local when
\* allow_delete holds and the prior state records it on both sides, and upload
\* in every other case; a path only in the remote snapshot gets delete_remote
\* under the same condition and download otherwise.
C4_OneSided ==
    pc = "exec" =>
        /\ \A path \in OnlyLocal :
              ActionsFor(path) =
                 IF connection.allow_delete /\ RecordedBoth(path)
                 THEN << <<"delete_local", path>> >>
                 ELSE << <<"upload", path>> >>
        /\ \A path \in OnlyRemote :
              ActionsFor(path) =
                 IF connection.allow_delete /\ RecordedBoth(path)
                 THEN << <<"delete_remote", path>> >>
                 ELSE << <<"download", path>> >>

\* allow_delete, a file that only the local side has and that the prior state
\* records on the local side only: it is uploaded, while another run deletes
C4_Witness ==
    /\ pc = "exec"
    /\ connection.allow_delete
    /\ \E path \in OnlyLocal :
          /\ path \in DOMAIN sync_state
          /\ sync_state[path].local_exists = 1
          /\ sync_state[path].remote_exists = 0
          /\ ActionsFor(path) = << <<"upload", path>> >>

\* the two copies are equal for the planner: same size, mtimes at most 1.0 s apart
SameFile(l, r) ==
    /\ l.size = r.size
    /\ l.mtime - r.mtime <= TicksPerSecond
    /\ r.mtime - l.mtime <= TicksPerSecond

\* C5: both sides present, local_priority false: no action iff the sizes are
\* equal and the mtimes differ by at most 1.0 s; otherwise upload when
\* local.mtime >= remote.mtime and download when local.mtime < remote.mtime.
C5_BothSides ==
    (pc = "exec" /\ ~connection.local_priority) =>
        \A path \in OnBoth :
           LET l == local_snapshot[path]
               r == remote_snapshot[path]
           IN ActionsFor(path) =
                 IF SameFile(l, r) THEN <<>>
                 ELSE IF l.mtime >= r.mtime THEN << <<"upload", path>> >>
                 ELSE << <<"download", path>> >>

\* S1: same size, the remote copy newer by more than a second: download
C5_Witness ==
    /\ pc = "exec"
    /\ ~connection.local_priority
    /\ \E path \in OnBoth :
          /\ local_snapshot[path].size = remote_snapshot[path].size
          /\ remote_snapshot[path].mtime - local_snapshot[path].mtime > TicksPerSecond
          /\ ActionsFor(path) = << <<"download", path>> >>

\* C6: local-priority tie-break. Both sides present, the copies differ and
\* local_priority is true: the action planned for the path is upload.
C6_LocalPriority ==
    (pc = "exec" /\ connection.local_priority) =>
        \A path \in OnBoth :
           ~SameFile(local_snapshot[path], remote_snapshot[path]) =>
               ActionsFor(path) = << <<"upload", path>> >>

\* S2: local_priority, the remote copy newer by more than a second: upload
C6_Witness ==
    /\ pc = "exec"
    /\ connection.local_priority
    /\ \E path \in OnBoth :
          /\ remote_snapshot[path].mtime - local_snapshot[path].mtime > TicksPerSecond
          /\ path \in DOMAIN sync_state
          /\ ActionsFor(path) = << <<"upload", path>> >>

\* the two trees are equal: every file on both sides, equal sizes, the mtimes
\* (the remote one as SFTP reports it) within 1 second
TreesEqual(lt, rt) ==
    /\ DOMAIN lt = DOMAIN rt
    /\ \A p \in DOMAIN lt :
          LET r == list_recursive(rt)[p]
          IN /\ lt[p].size = r.size
             /\ lt[p].mtime - r.mtime <= TicksPerSecond
             /\ r.mtime - lt[p].mtime <= TicksPerSecond

\* C7: idempotence. A cycle that starts on equal trees, the trees on which the
\* last successful cycle started and saved the prior state, plans zero actions
\* and is about to save the rows that are stored already.
C7_Idempotence ==
    (/\ pc = "exec"
     /\ idx = 1
     /\ begin_trees = prior_trees
     /\ TreesEqual(begin_trees[1], begin_trees[2]))
    => /\ actions = <<>>
       /\ save_sync_state(build_snapshot(local_snapshot, remote_snapshot)) = sync_state

\* C8: ignore containment. No planned action has a key that the rules of the
\* cycle ignore, wherever that path exists.
C8_IgnoreContainment ==
    pc = "exec" =>
        \A i \in 1..Len(actions) : ~should_ignore(ignore, actions[i][2])

\* the ignored path exists on both sides, is recorded in the prior state and
\* is in the drained dirty set, and the cycle has planned something else
C8_Witness ==
    /\ pc = "exec"
    /\ should_ignore(ignore, <<"a">>)
    /\ <<"a">> \in DOMAIN local_tree \cap DOMAIN remote_tree
    /\ <<"a">> \in DOMAIN last_state
    /\ \E i \in 1..Len(dirty) : dirty[i] = <<"a">>
    /\ actions # <<>>

\* the paths drained from the dirty set
DirtySet == {dirty[i] : i \in 1..Len(dirty)}

\* C9: dirty priority. In the planned sequence, which the cycle executes by
\* index, every action of a dirty path precedes every action of a non-dirty
\* path, and the actions of non-dirty paths are in sorted path order.
C9_DirtyPriority ==
    pc = "exec" =>
        \A i, j \in 1..Len(actions) :
           i < j =>
              /\ actions[j][2] \in DirtySet => actions[i][2] \in DirtySet
              /\ (actions[i][2] \notin DirtySet /\ actions[j][2] \notin DirtySet)
                    => StrLess(actions[i][2], actions[j][2])

\* a dirty path is acted on before a non-dirty path that sorts before it
C9_Witness ==
    /\ pc = "exec"
    /\ Len(actions) >= 2
    /\ actions[1][2] \in DirtySet
    /\ actions[2][2] \notin DirtySet
    /\ StrLess(actions[2][2], actions[1][2])

\* the transitions of the status state machine as the specification lists them
ListedTransitions ==
    {<<"Stopped", "Running">>, <<"Running", "Syncing">>, <<"Syncing", "Running">>,
     <<"Syncing", "Error">>, <<"Error", "Syncing">>}
    \cup {<<s, "Stopped">> : s \in {"Stopped", "Running", "Syncing", "Error"}}

\* C10 as stated: every status passed to the sink follows the status before it
\* by one of Stopped->Running, Running->Syncing, Syncing->Running,
\* Syncing->Error (with last_error set), Error->Syncing, any->Stopped.
C10_StatusMachine ==
    sink_prev # "none" =>
        /\ <<sink_prev, status>> \in ListedTransitions
        /\ status = "Error" <=> last_error # NoError

\* the transitions the worker makes: no Running on start, so the first cycle
\* goes from Stopped to Syncing; Syncing is sent again when a plan has actions
WorkerTransitions ==
    (ListedTransitions \ {<<"Stopped", "Running">>})
    \cup {<<"Stopped", "Syncing">>, <<"Syncing", "Syncing">>}

\* C10 amended: every status passed to the sink follows the status before it
\* by one of Stopped->Syncing, Running->Syncing, Syncing->Syncing,
\* Syncing->Running, Syncing->Error (with last_error set), Error->Syncing,
\* any->Stopped.
C10_WorkerStatusMachine ==
    sink_prev # "none" =>
        /\ <<sink_prev, status>> \in WorkerTransitions
        /\ status = "Error" <=> last_error # NoError

\* a cycle with a plan has sent Syncing a second time
C10_Witness ==
    /\ pc = "exec"
    /\ sink_prev = "Syncing"
    /\ status = "Syncing"
    /\ actions # <<>>

\* the status callback is invoked with Stopped in this step
EmitsStopped ==
    /\ <<sink_prev, status>>' # <<sink_prev, status>>
    /\ status' = "Stopped"

\* C11: stop. With the stop flag set the worker starts no cycle; it leaves its
\* loop, stops the watcher and then passes Stopped to the sink, once, as the
\* last thing it does.
C11_Stop ==
    /\ [][stop_event => ~(pc = "cycle" /\ pc' = "drain")]_vars
    /\ [][EmitsStopped => (~observer /\ pc = "emit" /\ pc' = "done")]_vars
    /\ [][pc = "done" => UNCHANGED <<pc, status, last_error, sink_prev, observer>>]_vars
    /\ stop_event ~> (pc = "done" /\ ~observer /\ status = "Stopped")

\* stop came while a cycle was in flight; the cycle saved its state and the
\* worker ended with Stopped
C11_Witness ==
    /\ pc = "done"
    /\ stop_event
    /\ sync_state # EmptyDict
    /\ sink_prev = "Running"
    /\ status = "Stopped"

\* C12: trigger_sync is never lost. While a worker that has not been stopped
\* sits in the interval wait with a call of trigger_sync not yet followed by
\* a cycle start, the event is set, so the wait returns at once; and every
\* call is followed by a cycle start, whenever it arrives.
C12_TriggerNeverLost ==
    /\ []((pc = "wait" /\ pending /\ ~stop_event) => wake_event)
    /\ (pending /\ ~stop_event) ~> (~pending \/ stop_event)

\* the call came between the return of the wait and clear(): the event is
\* cleared with the call unanswered, and the loop is about to start a cycle
C12_Witness ==
    /\ pc = "loop"
    /\ pending
    /\ ~wake_event
    /\ ~stop_event
    /\ sync_state # EmptyDict

\* C13: no dirty mark is lost. A path leaves dirty_paths only into the list
\* that the drain of a cycle returns.
C13_NoDirtyLost ==
    [][\A p \in dirty_paths :
          p \in dirty_paths' \/ \E i \in 1..Len(dirty') : dirty'[i] = p]_vars

\* the workers of the connection with a cycle in progress
InCycle == {w \in DOMAIN threads : threads[w].pc = "cycle"}

\* C14: no overlapping cycles per connection. At no time do two workers of the
\* connection have a cycle in progress.
C14_NoOverlap == Cardinality(InCycle) <= 1

(***************************************************************************)
(* ConfigSpec: one worker thread whose configuration is replaced, at any   *)
(* time, through update_connection.                                        *)
(***************************************************************************)
ConfigInit ==
    /\ Init
    /\ ignore_file = <<FALSE>>

\* SyncWorker.update_connection(data), called on another thread
update_connection(data) ==
    /\ pc \notin {"start", "done"}
    /\ data # connection
    /\ connection' = data
    /\ UNCHANGED <<local_tree, remote_tree, ignore_file, storeVars, histVars, workerVars,
                   cycleVars, wakeVars, restVars>>

ConfigNext ==
    \/ RunStart
    \/ LoopTest
    \/ CycleBegin
    \/ ConsumeClear
    \/ OpenListPlan
    \/ \E io_ok \in BOOLEAN : ExecuteAction(io_ok)
    \/ CycleEnd
    \/ Wait
    \/ WakeClear
    \/ \E data \in [allow_delete : BOOLEAN, local_priority : BOOLEAN] : update_connection(data)

ConfigSpec == ConfigInit /\ [][ConfigNext]_vars

(***************************************************************************)
(* RetrySpec: the cycles of a worker with allow_delete, started at the top *)
(* of a cycle where file "a", recorded as present on both sides, is        *)
(* missing on one side; the actions of the cycles may fail.                *)
(***************************************************************************)
RetryInit ==
    /\ PlanInit
    /\ connection.allow_delete
    /\ ignore_file = <<FALSE>>
    /\ sync_state = save_sync_state(build_snapshot(<<"a">> :> [mtime |-> 0, size |-> 1],
                                                   <<"a">> :> [mtime |-> 0, size |-> 1]))
    /\ \/ DOMAIN local_tree = {<<"a">>} /\ remote_tree = EmptyDict
       \/ DOMAIN remote_tree = {<<"a">>} /\ local_tree = EmptyDict

RetryNext ==
    \/ LoopTest
    \/ CycleBegin
    \/ ConsumeClear
    \/ \E exc \in ConnectErrors : CycleFails(exc)
    \/ OpenListPlan
    \/ \E io_ok \in BOOLEAN : ExecuteAction(io_ok)
    \/ CycleEnd
    \/ Wait
    \/ WakeClear

RetrySpec == RetryInit /\ [][RetryNext]_vars

(***************************************************************************)
(* StoreSpec: the calls of Storage on the rows of one connection:          *)
(* save_sync_state, load_sync_state and delete_connection, in any order,   *)
(* from any rows an earlier cycle left and with any map to save.           *)
(***************************************************************************)
\* the worker thread has not been started and nothing is on either side
WorkerAtRest ==
    /\ local_tree = EmptyDict
    /\ remote_tree = EmptyDict
    /\ ignore_file = <<FALSE>>
    /\ connection = [allow_delete |-> FALSE, local_priority |-> FALSE]
    /\ logs = <<>>
    /\ status = "Stopped"
    /\ last_error = NoError
    /\ sink_prev = "none"
    /\ begin_trees = NoTrees
    /\ begin_connection = <<>>
    /\ prior_trees = NoTrees
    /\ pc = "start"
    /\ observer = FALSE
    /\ stop_event = FALSE
    /\ dirty_paths = {}
    /\ ignore = <<>>
    /\ local_snapshot = EmptyDict
    /\ remote_snapshot = EmptyDict
    /\ last_state = EmptyDict
    /\ dirty = <<>>
    /\ actions = <<>>
    /\ idx = 0
    /\ wake_event = FALSE
    /\ pending = FALSE

\* what the worker has and what the store calls leave alone
atRestVars ==
    <<envVars, logs, status, last_error, sink_prev, histVars, workerVars, cycleVars, wakeVars>>

\* the values of local_mtime and remote_mtime: null, or a time
Stamps == {None, 0, MaxTime}

\* the maps _build_snapshot can hand to save_sync_state, and any other map
\* with the same four fields
StateMaps ==
    UNION {[D -> [local_exists : BOOLEAN, local_mtime : Stamps,
                  remote_exists : BOOLEAN, remote_mtime : Stamps]] :
             D \in SUBSET FilePaths}

\* the rows an earlier cycle stored for the connection
PriorRows ==
    {save_sync_state(m) :
        m \in UNION {[D -> {[local_exists |-> TRUE, local_mtime |-> 0,
                             remote_exists |-> TRUE, remote_mtime |-> 0]}] :
                       D \in SUBSET FilePaths}}

StoreInit ==
    /\ WorkerAtRest
    /\ sync_state \in PriorRows
    /\ record = <<[enabled |-> TRUE, allow_delete |-> FALSE]>>
    /\ workers = NoWorker
    /\ threads = <<>>
    /\ calls = <<>>
    /\ lock = "free"
    /\ args \in [entries : StateMaps, prior : {sync_state}]
    /\ returned = <<>>
    /\ store_lock = "free"
    /\ store_ops = <<>>

\* the call made before this one, "none" for the first
LastCall == IF returned = <<>> THEN "none" ELSE returned[1].op

\* Storage.save_sync_state(id, args.entries)
CallSave ==
    /\ sync_state' = save_sync_state(args.entries)
    /\ returned' = <<[op |-> "save", after |-> LastCall]>>
    /\ UNCHANGED <<atRestVars, mgrVars, args, lockVars>>

\* Storage.load_sync_state(id)
CallLoad ==
    /\ returned' = <<[op |-> "load", after |-> LastCall, value |-> load_sync_state(sync_state)]>>
    /\ UNCHANGED <<atRestVars, sync_state, mgrVars, args, lockVars>>

\* Storage.delete_connection(id): DELETE FROM connections. The connection
\* opened by _connect never sets PRAGMA foreign_keys, which SQLite leaves off,
\* so ON DELETE CASCADE of table sync_state does not act
CallDelete ==
    /\ record # <<>>
    /\ record' = <<>>
    /\ returned' = <<[op |-> "delete", after |-> LastCall]>>
    /\ UNCHANGED <<atRestVars, sync_state, workers, threads, calls, lock, args, lockVars>>

StoreNext ==
    \/ CallSave
    \/ CallLoad
    \/ CallDelete

StoreSpec == StoreInit /\ [][StoreNext]_vars

(***************************************************************************)
(* LockSpec: the threads that write to the store, each going through       *)
(* Storage._connect for every operation.                                   *)
(***************************************************************************)
\* the mutating operations each thread calls: a worker thread (status
\* callback, _execute_action, _sync_cycle), the web thread (app.py and the
\* manager's stop_connection) and the tray thread (stop_all)
StoreOps ==
    [worker |-> {"update_status", "add_log", "save_sync_state"},
     web    |-> {"update_status", "update_connection", "delete_connection"},
     tray   |-> {"update_status"}]

StoreThreads == DOMAIN StoreOps

\* the thread is in no store operation
NoOp == [op |-> "none", pc |-> "idle"]

LockInit ==
    /\ WorkerAtRest
    /\ sync_state = EmptyDict
    /\ NoManager
    /\ args = <<>>
    /\ returned = <<>>
    /\ store_lock = "free"
    /\ store_ops = [t \in StoreThreads |-> NoOp]

\* _connect: with self._lock is entered; sqlite3.connect and row_factory
ConnectOpen(t, op) ==
    /\ store_ops[t] = NoOp
    /\ op \in StoreOps[t]
    /\ store_lock = "free"
    /\ store_lock' = t
    /\ store_ops' = [store_ops EXCEPT ![t] = [op |-> op, pc |-> "connect"]]
    /\ UNCHANGED <<atRestVars, sync_state, mgrVars, callVars>>

\* _connect: the with self._lock block ends, then yield conn: the body of
\* the operation starts
ConnectYield(t) ==
    /\ store_ops[t].pc = "connect"
    /\ store_lock' = "free"
    /\ store_ops' = [store_ops EXCEPT ![t].pc = "body"]
    /\ UNCHANGED <<atRestVars, sync_state, mgrVars, callVars>>

\* the body of the operation: its conn.execute statements have run
BodyDone(t) ==
    /\ store_ops[t].pc = "body"
    /\ store_ops' = [store_ops EXCEPT ![t].pc = "finally"]
    /\ UNCHANGED <<atRestVars, sync_state, mgrVars, callVars, store_lock>>

\* _connect, finally: conn.commit() and conn.close(); the operation returns
CommitClose(t) ==
    /\ store_ops[t].pc = "finally"
    /\ store_ops' = [store_ops EXCEPT ![t] = NoOp]
    /\ UNCHANGED <<atRestVars, sync_state, mgrVars, callVars, store_lock>>

LockNext ==
    \/ \E t \in StoreThreads, op \in {"update_status", "add_log", "save_sync_state",
                                     "update_connection", "delete_connection"} :
           ConnectOpen(t, op)
    \/ \E t \in StoreThreads : ConnectYield(t)
    \/ \E t \in StoreThreads : BodyDone(t)
    \/ \E t \in StoreThreads : CommitClose(t)

LockSpec == LockInit /\ [][LockNext]_vars

(***************************************************************************)
(* IgnoreSpec: should_ignore called with any rule list and any path.       *)
(***************************************************************************)
\* the longest rule list
MaxRules == 3

\* the lines a rule list is made of: a glob, a negation, a directory rule and
\* its negation, an anchored rule, a plain name
RuleLines ==
    { <<"*", ".", "l", "o", "g">>,
      <<"!", "k", "e", "e", "p", ".", "l", "o", "g">>,
      <<"d", "/">>,
      <<"!", "d", "/">>,
      <<"/", "n", "a", "m", "e">>,
      <<"k", "e", "e", "p", ".", "l", "o", "g">> }

\* the relative paths asked about
AskedPaths ==
    { <<"a", ".", "l", "o", "g">>,
      <<"k", "e", "e", "p", ".", "l", "o", "g">>,
      <<"b", ".", "t", "x", "t">>,
      <<"d">>,
      <<"d", "/", "f", "i", "l", "e">>,
      <<"d", "x", "/", "f", "i", "l", "e">>,
      <<"d", "f", "i", "l", "e">>,
      <<"n", "a", "m", "e">>,
      <<"s", "u", "b", "/", "n", "a", "m", "e">> }

\* the rule lists of at most MaxRules lines
RuleLists == UNION {[1..n -> RuleLines] : n \in 0..MaxRules}

IgnoreInit ==
    /\ WorkerAtRest
    /\ sync_state = EmptyDict
    /\ NoManager
    /\ args \in [patterns : RuleLists, path : AskedPaths]
    /\ returned = <<>>
    /\ store_lock = "free"
    /\ store_ops = <<>>

\* rules.should_ignore(path), rules.patterns being args.patterns
CallShouldIgnore ==
    /\ returned = <<>>
    /\ returned' = <<should_ignore(args.patterns, args.path)>>
    /\ UNCHANGED <<atRestVars, sync_state, mgrVars, args, lockVars>>

\* the path is asked about again, with the same rules
CallAgain ==
    /\ returned # <<>>
    /\ returned' = <<>>
    /\ UNCHANGED <<atRestVars, sync_state, mgrVars, args, lockVars>>

IgnoreNext ==
    \/ CallShouldIgnore
    \/ CallAgain

IgnoreSpec == IgnoreInit /\ [][IgnoreNext]_vars

(***************************************************************************)
(* FilterSpec: the two snapshots of one cycle, taken under any rule list   *)
(* from two trees that hold the same files.                                *)
(***************************************************************************)
\* the lines of the rule lists: a name, a directory rule, the negation that
\* keeps one file of the directory, a glob on names
FilterLines ==
    { <<"d">>,
      <<"d", "/">>,
      <<"!", "d", "/", "x">>,
      <<"x">> }

\* the trees: any of a file in a directory, a file at the root with the same
\* name, and another file at the root
FilterTrees ==
    UNION {[D -> {[mtime |-> 0, size |-> 1]}] :
             D \in SUBSET { <<"d", "/", "x">>, <<"x">>, <<"a">> }}

FilterInit ==
    /\ WorkerAtRest
    /\ sync_state = EmptyDict
    /\ NoManager
    /\ args \in [patterns : UNION {[1..n -> FilterLines] : n \in 0..MaxRules},
                 tree : FilterTrees]
    /\ returned = <<>>
    /\ store_lock = "free"
    /\ store_ops = <<>>

\* _sync_cycle: _scan_local(ignore) of the local tree and the filtered
\* list_recursive of the remote tree, both trees being args.tree
CallSnapshots ==
    /\ returned = <<>>
    /\ returned' = <<[local  |-> scan_local(args.patterns, args.tree),
                      remote |-> filter_remote(args.patterns, list_recursive(args.tree))]>>
    /\ UNCHANGED <<atRestVars, sync_state, mgrVars, args, lockVars>>

FilterNext ==
    \/ CallSnapshots
    \/ CallAgain

FilterSpec == FilterInit /\ [][FilterNext]_vars

\* the live workers that are neither mapped nor removed by stop_connection
Orphans ==
    {w \in DOMAIN threads :
        /\ is_alive(w)
        /\ w # workers
        /\ ~threads[w].stop_event
        /\ \A c \in Callers : ~(calls[c].pc = "stop" /\ calls[c].w = w)}

\* start_connection on thread c tests the map in this step
StartTests(c) == calls[c].pc \in {"idle", "acquire"} /\ calls'[c].pc = "body"

\* start_connection on thread c acts and returns in this step
StartReturns(c) == calls[c].pc = "body" /\ calls'[c].pc = "idle"

\* C15: start_connection is idempotent. With a live worker mapped it creates
\* no worker, calls trigger_sync on the mapped one and returns true; with a
\* dead worker mapped (or none) it maps a newly started worker; with no
\* connection row it returns false.  Calls that run at the same time leave no
\* live worker outside the map: every live worker is the mapped one or was
\* removed by stop_connection.
C15_StartIdempotent ==
    /\ [][\A c \in Callers :
            /\ StartTests(c) =>
                  calls'[c].w = IF workers # NoWorker /\ threads[workers].pc # "dead"
                                THEN workers ELSE NoWorker
            /\ (StartReturns(c) /\ calls[c].w # NoWorker) =>
                  /\ Len(threads') = Len(threads)
                  /\ workers' = workers
                  /\ threads'[calls[c].w].wake_event
                  /\ calls'[c].ret = "True"
            /\ (StartReturns(c) /\ calls[c].w = NoWorker /\ record # <<>>) =>
                  /\ Len(threads') = Len(threads) + 1
                  /\ workers' = Len(threads')
                  /\ threads'[workers'].pc # "dead"
                  /\ threads'[workers'].connection = record[1]
                  /\ calls'[c].ret = "True"
            /\ (StartReturns(c) /\ calls[c].w = NoWorker /\ record = <<>>) =>
                  /\ threads' = threads
                  /\ workers' = workers
                  /\ calls'[c].ret = "False"]_vars
    /\ [](Orphans = {})

\* a worker that died on its own and stayed mapped has been replaced by a new
\* one, which was woken
C15_Witness ==
    /\ Len(threads) = 2
    /\ threads[1].pc = "dead"
    /\ ~threads[1].stop_event
    /\ workers = 2
    /\ threads[2].wake_event
    /\ \E c \in Callers : calls[c].pc = "idle" /\ calls[c].ret = "True"

\* stop_connection on thread c writes the status and returns in this step
StopReturns(c) == calls[c].pc = "write" /\ calls'[c].pc # "write"

\* C16 as stated: when stop_connection returns, no worker is mapped for the
\* id and the stored status is Stopped.
C16_StopPostcondition ==
    [][\A c \in Callers :
          StopReturns(c) => (workers' = NoWorker /\ status' = "Stopped")]_vars

\* C16, amended: stop_connection on a mapped worker first removes it from the
\* map, then sets its stop flag, then joins it, then writes Stopped; when it
\* returns the stored status is Stopped and the worker it removed is not in
\* the map, the worker terminated or not; no worker at all is mapped when no
\* other call of the manager ran during this one.
C16_StopConnection ==
    [][\A c \in Callers :
          /\ (calls[c].pc = "idle" /\ calls'[c].pc = "stop") =>
                /\ calls'[c].w = workers
                /\ workers' = NoWorker
                /\ threads' = threads
                /\ status' = status
          /\ (calls[c].pc = "stop" /\ calls'[c].pc = "join") =>
                /\ workers # calls[c].w
                /\ threads'[calls[c].w].stop_event
                /\ threads'[calls[c].w].wake_event
                /\ status' = status
          /\ (calls[c].pc = "join" /\ calls'[c].pc = "write") =>
                /\ threads[calls[c].w].stop_event
                /\ UNCHANGED <<threads, workers, status>>
          /\ StopReturns(c) =>
                /\ status' = "Stopped"
                /\ last_error' = NoError
                /\ workers' # calls[c].w
                /\ calls[c].alone => workers' = NoWorker]_vars

\* stop_connection has returned while the worker it removed is still in its
\* cycle: the join ran out
C16_Witness ==
    /\ \A c \in Callers : calls[c].pc = "idle"
    /\ Len(threads) = 1
    /\ threads[1].pc = "cycle"
    /\ threads[1].stop_event
    /\ workers = NoWorker
    /\ status = "Stopped"

\* C17: dead workers are cleared from the map. A worker whose thread ended on
\* its own (its loop ended without stop(), its Stopped status went through
\* _handle_status) is no longer the worker mapped for its connection.
C17_DeadCleared ==
    \A w \in DOMAIN threads :
        (threads[w].pc = "dead" /\ ~threads[w].stop_event) => workers # w

\* C18: errors never escape a worker. Whatever step of a cycle fails, the
\* thread stays in its loop: run() reaches its finally block, and ends, only
\* after stop() was called.
C18_ErrorsContained == pc \in {"finally", "emit", "done"} => stop_event

\* the worker executes the planned action at idx in this step
Executes == pc = "exec" /\ idx <= Len(actions) /\ idx' # idx

RefreshReturns(c) ==
    calls[c].op = "refresh" /\ calls[c].pc # "idle" /\ calls'[c].pc = "idle"

\* the stored row is there and enabled
StoredEnabled == record # <<>> /\ record[1].enabled

\* C20: when refresh_connection returns, a worker is mapped iff the stored
\* configuration is enabled, the mapped worker holds the stored row as its
\* configuration, and with a disabled configuration the call started none.
C20_Refresh ==
    [][\A c \in Callers :
          RefreshReturns(c) =>
              /\ workers' # NoWorker <=> StoredEnabled
              /\ workers' # NoWorker =>
                    /\ threads'[workers'].pc # "dead"
                    /\ threads'[workers'].connection = record[1]
              /\ ~StoredEnabled => threads' = threads]_vars

\* C20 for a refresh_connection during which no other call of the manager ran
C20_RefreshAlone ==
    [][\A c \in Callers :
          (RefreshReturns(c) /\ calls[c].alone) =>
              /\ workers' # NoWorker <=> StoredEnabled
              /\ workers' # NoWorker =>
                    /\ threads'[workers'].pc # "dead"
                    /\ threads'[workers'].connection = record[1]
                    /\ calls[c].w = NoWorker
              /\ ~StoredEnabled => threads' = threads]_vars

\* C20 without the part on the mapping: what holds whatever runs beside it
C20_RefreshConfig ==
    [][\A c \in Callers :
          RefreshReturns(c) =>
              /\ StoredEnabled => workers' # NoWorker
              /\ workers' # NoWorker => threads'[workers'].connection = record[1]
              /\ ~StoredEnabled => threads' = threads]_vars

\* load_sync_state was called right after save_sync_state
LoadedAfterSave ==
    returned # <<>> /\ returned[1].op = "load" /\ returned[1].after = "save"

\* C21 as stated: save_sync_state then load_sync_state returns the map that
\* was saved, with exactly its keys and, per key, exactly its fields and values.
C21_RoundTripExact == LoadedAfterSave => returned[1].value = args.entries

\* C21, amended: save_sync_state then load_sync_state returns a map with
\* exactly the keys of the map saved (rows stored before for other paths are
\* gone) and, per key, the four fields of the saved entry with their values
\* and one more field, hash, which is null.
C21_RoundTrip ==
    LoadedAfterSave =>
        /\ DOMAIN returned[1].value = DOMAIN args.entries
        /\ \A k \in DOMAIN args.entries :
              /\ DOMAIN returned[1].value[k] = DOMAIN args.entries[k] \cup {"hash"}
              /\ \A f \in DOMAIN args.entries[k] :
                    returned[1].value[k][f] = args.entries[k][f]
              /\ returned[1].value[k].hash = None

\* a map with a missing side was saved over rows for another path and loaded
C21_Witness ==
    /\ LoadedAfterSave
    /\ DOMAIN args.prior \ DOMAIN args.entries # {}
    /\ \E k \in DOMAIN args.entries :
          /\ ~args.entries[k].remote_exists
          /\ args.entries[k].remote_mtime = None
          /\ args.entries[k].local_exists
          /\ args.entries[k].local_mtime = MaxTime

\* C22: cascade on delete. load_sync_state called right after
\* delete_connection returns the empty map: no sync_state row of the
\* connection is left.
C22_CascadeOnDelete ==
    (returned # <<>> /\ returned[1].op = "load" /\ returned[1].after = "delete")
        => returned[1].value = EmptyDict

\* the threads inside the body of a mutating store operation
InBody == {t \in DOMAIN store_ops : store_ops[t].pc = "body"}

\* C23: store mutual exclusion. No two threads are inside the body of a
\* mutating store operation at the same time.
C23_StoreMutex == Cardinality(InBody) <= 1

\* the test of one rule in should_ignore: the rule, without its "!" and its
\* leading "/", is a prefix of the path (directory rule) or a glob that
\* matches the path or its last segment
RuleMatches(pattern, rel) ==
    LET rule0 == IF StartsWith(pattern, <<"!">>) THEN Tail(pattern) ELSE pattern
        rule1 == IF StartsWith(rule0, <<"/">>) THEN Lstrip(rule0, {"/"}) ELSE rule0
    IN IF EndsWith(rule1, <<"/">>)
       THEN StartsWith(rel, Rstrip(rule1, {"/"}))
       ELSE FnMatch(rel, rule1) \/ FnMatch(LastSegment(rel), rule1)

\* C24: last match wins, with negation. should_ignore(p) is true iff some rule
\* matches p and the last rule in file order that matches p has no "!"; with
\* the rules *.log and !keep.log, a.log is ignored and keep.log and b.txt
\* are not.
C24_LastMatchWins ==
    returned # <<>> =>
        LET patterns == args.patterns
            rel == NormalizeRel(args.path)
            hits == {i \in DOMAIN patterns : RuleMatches(patterns[i], rel)}
        IN /\ returned[1] =
                 (/\ hits # {}
                  /\ \E i \in hits :
                        /\ \A j \in hits : j <= i
                        /\ ~StartsWith(patterns[i], <<"!">>))
           /\ (/\ patterns = << <<"*", ".", "l", "o", "g">>, <<"!", "k", "e", "e", "p", ".", "l", "o", "g">> >>
               /\ args.path \in { <<"a", ".", "l", "o", "g">>, <<"k", "e", "e", "p", ".", "l", "o", "g">>, <<"b", ".", "t", "x", "t">> })
                 => (returned[1] <=> args.path = <<"a", ".", "l", "o", "g">>)

\* keep.log was asked about under the rules *.log, !keep.log and is kept
C24_Witness ==
    /\ returned = <<FALSE>>
    /\ args.patterns = << <<"*", ".", "l", "o", "g">>, <<"!", "k", "e", "e", "p", ".", "l", "o", "g">> >>
    /\ args.path = <<"k", "e", "e", "p", ".", "l", "o", "g">>

\* C25: directory patterns. The rule d/ matches exactly d itself and the paths
\* that begin with d followed by "/", not a path that only shares the
\* characters of d as a prefix.
C25_DirectoryRule ==
    (returned # <<>> /\ args.patterns = << <<"d", "/">> >>) =>
        (returned[1] <=> (args.path = <<"d">> \/ StartsWith(args.path, <<"d", "/">>)))

\* C26: anchored patterns. The rule /name is matched against the full
\* relative path only: it matches name at the root and not sub/name.
C26_AnchoredRule ==
    (returned # <<>> /\ args.patterns = << <<"/", "n", "a", "m", "e">> >>) =>
        (returned[1] <=> args.path = <<"n", "a", "m", "e">>)

\* C27: a cycle uses one configuration. The actions a cycle plans are those
\* the planner gives under the configuration the worker had when the cycle
\* began, whatever update_connection replaced it with since.
C27_OneConfiguration ==
    [][(pc = "open" /\ pc' = "exec") =>
          actions' = plan_actions(local_snapshot, remote_snapshot', last_state, dirty,
                                  begin_connection[1])]_vars

\* C28: local snapshot keys are the relative paths. Right after the scan,
\* every key of the local snapshot is the relative path of a file under the
\* local root, and holds that file's stat.
C28_LocalKeys ==
    pc = "drain" =>
        \A k \in DOMAIN local_snapshot :
            k \in DOMAIN local_tree /\ local_snapshot[k] = local_tree[k]

\* C29: local and remote filtering agree. A file that exists on both sides is
\* in the local snapshot iff it is in the remote snapshot, so with every file
\* present and unchanged on both sides, and recorded so by the prior state,
\* the cycle plans no delete_remote and no download, whatever the policy.
C29_FiltersAgree ==
    returned # <<>> =>
        LET local == returned[1].local
            remote == returned[1].remote
            last == load_sync_state(save_sync_state(build_snapshot(args.tree, args.tree)))
        IN /\ \A q \in DOMAIN args.tree : q \in DOMAIN local <=> q \in DOMAIN remote
           /\ \A conn \in [allow_delete : BOOLEAN, local_priority : BOOLEAN] :
                 LET planned == plan_actions(local, remote, last, <<>>, conn)
                 IN \A i \in DOMAIN planned :
                       planned[i][1] \notin {"delete_remote", "download"}

\* C30: a stopped connection stays Stopped. When stop_connection has
\* returned (no manager call is in progress, no worker is mapped, the stored
\* status is Stopped), no step writes another status before the next
\* start_connection maps a worker.
C30_StaysStopped ==
    [][(/\ \A c \in Callers : calls[c].pc = "idle"
        /\ workers = NoWorker
        /\ status = "Stopped") => status' = "Stopped"]_vars

\* C31: with allow_delete, a propagated deletion is never reversed. From a
\* cycle that finds file a, recorded as present on both sides, missing on one
\* side, no cycle ever plans the copy of a back to the side it is missing
\* from: neither an upload nor a download of a is planned, also after a
\* deletion that failed.
C31_DeletionNotReversed ==
    \A i \in DOMAIN actions :
        actions[i][2] = <<"a">> => actions[i][1] \notin {"upload", "download"}

\* C32: sync_now for an existing connection always leads to a cycle. When
\* sync_now returns, with the row in the store and no other manager call in
\* progress since it was entered, a worker is mapped, its thread is alive, and
\* it has been triggered or has just been created, whatever the map held
\* before, a worker whose thread has died included.
SyncNowReturns(c) ==
    /\ calls[c].op = "sync_now"
    /\ calls[c].alone
    /\ calls'[c].pc = "idle"
    /\ record # <<>>

C32_SyncNowLeadsToCycle ==
    [][\A c \in Callers :
          SyncNowReturns(c) =>
              /\ workers' # NoWorker
              /\ is_alive(workers)'
              /\ threads'[workers'].wake_event \/ workers' # workers]_vars

\* the next step of the call in progress on thread c
CallStep(c) ==
    \/ StartConnectionLock(c)
    \/ StartConnectionBody(c)
    \/ StopConnectionStop(c)
    \/ StopConnectionJoin(c)
    \/ StopConnectionWrite(c)
    \/ RefreshGet(c)
    \/ SyncNowTrigger(c)

\* the holder of the lock can take its next step, the release of the lock
HolderRuns == lock # "free" /\ ENABLED StartConnectionBody(lock)

\* no thread holds the lock while it stops, joins or writes the status of a
\* worker, and no thread is blocked: each call in progress and each callback
\* at the lock can step, or the holder of the lock can
NoThreadWaits ==
    /\ \A c \in Callers : calls[c].pc \in {"stop", "join", "write"} => lock # c
    /\ lock # "free" => HolderRuns
    /\ \A c \in Callers : calls[c].pc # "idle" => (ENABLED CallStep(c)) \/ HolderRuns
    /\ \A w \in DOMAIN threads :
           threads[w].pc = "handle" => (ENABLED HandleStopped(w)) \/ HolderRuns

\* how far a call is on its way to its return
CallRank(pos) ==
    CASE pos = "stop" -> 1
      [] pos = "join" -> 2
      [] pos = "write" -> 3
      [] pos \in {"read", "trigger"} -> 4
      [] pos = "acquire" -> 5
      [] pos = "body" -> 6
      [] pos = "idle" -> 7

\* a step of a call in progress takes it nearer to its return
CallAdvances ==
    \A c \in Callers :
        (calls[c].pc # "idle" /\ calls'[c].pc # calls[c].pc)
            => CallRank(calls'[c].pc) > CallRank(calls[c].pc)

\* C33: deadlock freedom of the control plane. In every state reached by the
\* interleavings of start_connection, stop_connection (alone, and as the first
\* call of stop_all, refresh_connection and remove_connection), sync_now and
\* the status callbacks of the workers, no thread waits forever: the lock is
\* not held by a thread that joins a worker, the holder of the lock can always
\* release it, every call in progress and every callback waiting for the lock
\* can take its next step or the holder of the lock can, and each step of a
\* call takes it nearer to its return, so that every manager operation
\* returns (the join returns when its bound elapses).
C33_NoDeadlock == []NoThreadWaits /\ [][CallAdvances]_vars

\* a thread joins its worker while the other thread holds the lock in
\* start_connection and the joined worker's callback waits for the lock
C33_Witness ==
    \E c \in Callers, d \in Callers :
        /\ c # d
        /\ calls[c].pc = "join"
        /\ lock = d
        /\ threads[calls[c].w].pc = "handle"

====
